---- MODULE Spec2Model ----
(* human_id: three-word identifiers (src/src/lib.rs) and the 3wid command   *)
(* line tool (src/src/bin/3wid.rs).                                         *)
(*                                                                          *)
(* A Rust String / &str is a sequence of chars; a char is a one-character   *)
(* TLA+ string.  An Option is a record with the field is_some.              *)
(* Spec is the library driven by an arbitrary client, CliSpec is one run    *)
(* of the 3wid binary.                                                      *)
EXTENDS Naturals, Sequences, FiniteSets, TLC

VARIABLES
    call,        \* the library call that returned last, with its arguments
    rng,         \* the indices thread_rng() drew for the three choose() calls
    result,      \* what that call returned (or the panic it ended in)
    cmd_line,    \* 3wid: the parsed CommandLine
    pc,          \* 3wid: position in main
    separator,   \* 3wid: main's local `separator`
    capitalize_words, \* 3wid: main's local `capitalize_words`
    language,    \* 3wid: main's local `language`
    iter,        \* 3wid: position of the range iterator 0..count
    stdout,      \* 3wid: the lines println! wrote, oldest first
    stderr,      \* 3wid: the lines eprintln! wrote
    exit_code    \* 3wid: the process exit status, once it has exited

lib_vars == <<call, rng, result>>
cli_vars == <<cmd_line, pc, separator, capitalize_words, language, iter,
              stdout, stderr, exit_code>>
vars == <<call, rng, result, cmd_line, pc, separator, capitalize_words,
          language, iter, stdout, stderr, exit_code>>

-----------------------------------------------------------------------------
(* Bounds *)

\* largest --count a modelled run is given (the flag is a u16)
MaxCount == 4

-----------------------------------------------------------------------------
(* Option, chars *)

None == [is_some |-> FALSE]
Some(x) == [is_some |-> TRUE, value |-> x]

Range(s) == {s[i] : i \in 1..Len(s)}

LowerCase == <<"a","b","c","d","e","f","g","h","i","j","k","l","m",
               "n","o","p","q","r","s","t","u","v","w","x","y","z">>
UpperCase == <<"A","B","C","D","E","F","G","H","I","J","K","L","M",
               "N","O","P","Q","R","S","T","U","V","W","X","Y","Z">>

\* U+00DF LATIN SMALL LETTER SHARP S: lower case, upper-cases to two chars
SharpS == "sharp-s"

\* char::is_uppercase
is_uppercase(c) == c \in Range(UpperCase)

\* char::to_uppercase: an iterator of one or more chars
to_uppercase(c) ==
    IF c \in Range(LowerCase)
    THEN <<UpperCase[CHOOSE i \in 1..Len(LowerCase) : LowerCase[i] = c]>>
    ELSE IF c = SharpS THEN <<"S", "S">>
    ELSE <<c>>

-----------------------------------------------------------------------------
(* The word catalog: mod words (words::en::ADJECTIVES, NOUNS, VERBS).       *)
(* The words are those of the examples in the crate documentation.          *)

ADJECTIVES == << <<"t","a","m","e">>, <<"c","h","a","t","t","y">> >>
NOUNS      == << <<"l","i","o","n","s">>, <<"w","o","m","b","a","t","s">> >>
VERBS      == << <<"r","e","t","i","r","e">>, <<"c","a","r","e">> >>

\* enum Language
Language == {"En"}

\* impl Default for Language
LanguageDefault == "En"

\* pub const NO_SEPARATOR: &str = "";
NO_SEPARATOR == <<>>

-----------------------------------------------------------------------------
(* Private functions *)

\* capitalize that upper-cases every char of the word
capitalize_every_char(input) ==
    LET RECURSIVE upper(_)
        upper(w) == IF Len(w) = 0 THEN <<>>
                    ELSE to_uppercase(Head(w)) \o upper(Tail(w))
    IN  upper(input)

\* capitalize that lower-cases the rest of the word
capitalize_lower_rest(input) ==
    IF Len(input) = 0
    THEN <<>>
    ELSE to_uppercase(Head(input)) \o
         [i \in 1..(Len(input) - 1) |->
            IF input[i + 1] \in Range(UpperCase)
            THEN LowerCase[CHOOSE j \in 1..Len(UpperCase) :
                               UpperCase[j] = input[i + 1]]
            ELSE input[i + 1]]

\* fn capitalize(input): chars.next() is None for the empty string,
\* otherwise first.to_uppercase() followed by chars.as_str()
capitalize(input) ==
    IF Len(input) = 0
    THEN <<>>
    ELSE to_uppercase(Head(input)) \o Tail(input)

\* may_capitalize that ignores should_capitalize
may_capitalize_always(should_capitalize, x) == capitalize(x)

\* the closure may_capitalize of custom_id_in_language
may_capitalize(should_capitalize, x) ==
    IF should_capitalize THEN capitalize(x) ELSE x

\* `match language` of custom_id_in_language
chosen_words(lang) ==
    CASE lang = "En" -> <<ADJECTIVES, NOUNS, VERBS>>

\* choose with the index off by one: index 0 is taken for "no element"
choose_off_by_one(slice, i) ==
    IF Len(slice) = 0 \/ i = 0 THEN None ELSE Some(slice[i])

\* SliceRandom::choose: None on an empty slice, otherwise the element at
\* the index i the generator drew from 0 .. len-1
choose(slice, i) ==
    IF Len(slice) = 0 THEN None ELSE Some(slice[i + 1])

\* the indices the generator may draw for a slice (none is drawn, and 0
\* stands for that, when the slice is empty)
Draw(slice) == IF Len(slice) = 0 THEN {0} ELSE 0..(Len(slice) - 1)

\* the index triples the generator may draw in one call
RngDraws(lang) ==
    Draw(chosen_words(lang)[1]) \X Draw(chosen_words(lang)[2])
        \X Draw(chosen_words(lang)[3])

\* join that writes the separator after every string, the last included
join_trailing(strings, sep) ==
    LET RECURSIVE each(_)
        each(ss) == IF Len(ss) = 0 THEN <<>>
                    ELSE ss[1] \o sep \o each(Tail(ss))
    IN  each(strings)

\* [String]::join(sep)
RECURSIVE join(_, _)
join(strings, sep) ==
    IF Len(strings) = 0 THEN <<>>
    ELSE IF Len(strings) = 1 THEN strings[1]
    ELSE strings[1] \o sep \o join(Tail(strings), sep)

\* Option::map(f).unwrap() for f = may_capitalize: a panic on None
Panic == [panicked |-> TRUE]
Returned(s) == [panicked |-> FALSE, value |-> s]

\* custom_id_in_language with one draw used for all three words
custom_id_in_language_one_draw(sep, should_capitalize, lang, r) ==
    LET words == chosen_words(lang)
        picks == [k \in 1..3 |-> choose(words[k], r[1])]
    IN  IF \E k \in 1..3 : ~picks[k].is_some
        THEN Panic
        ELSE Returned(join([k \in 1..3 |->
                 may_capitalize(should_capitalize, picks[k].value)], sep))

\* pub fn custom_id_in_language(separator, should_capitalize, language),
\* with r the three indices thread_rng() draws in this call
custom_id_in_language(sep, should_capitalize, lang, r) ==
    LET words == chosen_words(lang)
        picks == [k \in 1..3 |-> choose(words[k], r[k])]
    IN  IF \E k \in 1..3 : ~picks[k].is_some
        THEN Panic
        ELSE Returned(join([k \in 1..3 |->
                 may_capitalize(should_capitalize, picks[k].value)], sep))

\* pub fn custom_id(separator, should_capitalize)
custom_id(sep, should_capitalize, r) ==
    custom_id_in_language(sep, should_capitalize, LanguageDefault, r)

\* id that leaves the words as they are in the catalog
id_no_capitalize(r) == custom_id(NO_SEPARATOR, FALSE, r)

\* pub fn id()
id(r) == custom_id(NO_SEPARATOR, TRUE, r)

\* from_str that resolves every string, unknown ones to the default
from_str_fallback(s) == [is_ok |-> TRUE, value |-> "En"]

\* from_str that knows the lower-case spelling only
from_str_lower_only(s) ==
    IF s = "en"
    THEN [is_ok |-> TRUE, value |-> "En"]
    ELSE [is_ok |-> FALSE, err |-> <<"The string '", s,
              "' is not a valid identifier, or supported language">>]

\* impl FromStr for Language
from_str(s) ==
    IF s \in {"en", "EN"}
    THEN [is_ok |-> TRUE, value |-> "En"]
    ELSE [is_ok |-> FALSE, err |-> <<"The string '", s,
              "' is not a valid identifier, or supported language">>]

-----------------------------------------------------------------------------
(* What the unit tests use *)

\* tests::capitals: the number of chars with is_uppercase
capitals(s) == Cardinality({i \in 1..Len(s) : is_uppercase(s[i])})

\* str::split(pat): the pieces between the non-overlapping matches of pat,
\* found left to right; the empty pattern matches at every char boundary
split(s, pat) ==
    LET n == Len(pat)
        RECURSIVE scan(_, _)
        scan(start, i) ==
            IF i + n - 1 > Len(s)
            THEN <<SubSeq(s, start, Len(s))>>
            ELSE IF SubSeq(s, i, i + n - 1) = pat
            THEN <<SubSeq(s, start, i - 1)>> \o scan(i + n, i + n)
            ELSE scan(start, i + 1)
    IN  IF n = 0
        THEN <<<<>>>> \o [i \in 1..Len(s) |-> <<s[i]>>] \o <<<<>>>>
        ELSE scan(1, 1)

\* slice::contains
contains(slice, x) == \E i \in 1..Len(slice) : slice[i] = x

-----------------------------------------------------------------------------
(* Inputs *)

\* separators a caller passes: none, a dash, two colons, a letter that
\* occurs in catalog words, an upper-case letter
Separators == { <<>>, <<"-">>, <<":", ":">>, <<"a">>, <<"X">> }

\* strings handed to capitalize
CapInputs == { <<>>, <<"a">>, <<"t","a","m","e">>, <<"T","a","M">>,
               <<SharpS, "a">>, <<"-", "b">> }

\* strings handed to Language::from_str, and given to --language
LanguageTags == {"en", "EN", "En", "eN", "xx", ""}

\* what CommandLine::from_args() may return
CommandLines ==
    [count         : {None} \cup {Some(n) : n \in 0..MaxCount},
     separator     : {None, Some(<<"-">>)},
     no_capitalize : BOOLEAN,
     language      : {None} \cup {Some(t) : t \in LanguageTags}]

\* 3wid run with no flags at all
NoFlags == [count |-> None, separator |-> None, no_capitalize |-> FALSE,
            language |-> None]

-----------------------------------------------------------------------------
(* The library, called by a client *)

LibInit ==
    /\ call = [fn |-> "none"]
    /\ rng = <<0, 0, 0>>
    /\ result = None

\* id() whose generator yields r
IdWith(r) ==
    /\ call' = [fn |-> "id"]
    /\ rng' = r
    /\ result' = id(r)
    /\ UNCHANGED cli_vars

CallId == \E r \in RngDraws(LanguageDefault) : IdWith(r)

\* custom_id(sep, cap) whose generator yields r
CustomIdWith(sep, cap, r) ==
    /\ call' = [fn |-> "custom_id", separator |-> sep,
                should_capitalize |-> cap]
    /\ rng' = r
    /\ result' = custom_id(sep, cap, r)
    /\ UNCHANGED cli_vars

CallCustomId ==
    \E sep \in Separators, cap \in BOOLEAN, r \in RngDraws(LanguageDefault) :
        CustomIdWith(sep, cap, r)

\* custom_id_in_language(sep, cap, lang) whose generator yields r
CustomIdInLanguageWith(sep, cap, lang, r) ==
    /\ call' = [fn |-> "custom_id_in_language", separator |-> sep,
                should_capitalize |-> cap, language |-> lang]
    /\ rng' = r
    /\ result' = custom_id_in_language(sep, cap, lang, r)
    /\ UNCHANGED cli_vars

CallCustomIdInLanguage ==
    \E sep \in Separators, cap \in BOOLEAN, lang \in Language :
        \E r \in RngDraws(lang) :
            CustomIdInLanguageWith(sep, cap, lang, r)

CallCapitalize ==
    \E input \in CapInputs :
        /\ call' = [fn |-> "capitalize", input |-> input]
        /\ result' = Returned(capitalize(input))
        /\ UNCHANGED <<rng, cli_vars>>

CallFromStr ==
    \E s \in LanguageTags :
        /\ call' = [fn |-> "from_str", s |-> s]
        /\ result' = from_str(s)
        /\ UNCHANGED <<rng, cli_vars>>

-----------------------------------------------------------------------------
(* 3wid: fn main *)

CliStart(c) ==
    /\ cmd_line = c
    /\ pc = "main"
    /\ separator = None
    /\ capitalize_words = None
    /\ language = None
    /\ iter = 0
    /\ stdout = <<>>
    /\ stderr = <<>>
    /\ exit_code = None

\* lines 48-66: the locals separator, capitalize_words and language; an
\* unresolved --language ends the process with status 1
MainResolve ==
    /\ pc = "main"
    /\ separator' = Some(IF cmd_line.separator.is_some
                         THEN cmd_line.separator.value ELSE <<>>)
    /\ capitalize_words' = Some(~cmd_line.no_capitalize)
    /\ IF cmd_line.language.is_some
       THEN LET parsed == from_str(cmd_line.language.value)
            IN  IF parsed.is_ok
                THEN /\ language' = Some(parsed.value)
                     /\ pc' = "for_each"
                     /\ UNCHANGED <<stderr, exit_code>>
                ELSE /\ stderr' = Append(stderr, <<"Error: ">> \o parsed.err)
                     /\ exit_code' = Some(1)
                     /\ pc' = "exited"
                     /\ UNCHANGED language
       ELSE /\ language' = Some(LanguageDefault)
            /\ pc' = "for_each"
            /\ UNCHANGED <<stderr, exit_code>>
    /\ UNCHANGED <<cmd_line, iter, stdout, lib_vars>>

\* the count taken with unwrap_or_default
Count_or_default == IF cmd_line.count.is_some THEN cmd_line.count.value ELSE 0

\* cmd_line.count.unwrap_or(1)
Count == IF cmd_line.count.is_some THEN cmd_line.count.value ELSE 1

\* lines 68-73: one step of the range 0..count, println! of a new identifier
\* (a panic of the generator aborts the process with status 101)
MainForEach ==
    /\ pc = "for_each"
    /\ iter < Count
    /\ \E r \in RngDraws(language.value) :
         LET the_id == custom_id_in_language(separator.value,
                           capitalize_words.value, language.value, r)
         IN  IF the_id.panicked
             THEN /\ stderr' = Append(stderr, <<"panicked">>)
                  /\ exit_code' = Some(101)
                  /\ pc' = "exited"
                  /\ UNCHANGED <<iter, stdout>>
             ELSE /\ stdout' = Append(stdout, the_id.value)
                  /\ iter' = iter + 1
                  /\ UNCHANGED <<pc, stderr, exit_code>>
    /\ UNCHANGED <<cmd_line, separator, capitalize_words, language, lib_vars>>

\* the range is exhausted: main returns, the process exits with status 0
MainReturn ==
    /\ pc = "for_each"
    /\ iter >= Count
    /\ pc' = "exited"
    /\ exit_code' = Some(0)
    /\ UNCHANGED <<cmd_line, separator, capitalize_words, language, iter,
                   stdout, stderr, lib_vars>>

-----------------------------------------------------------------------------
(* Specifications *)

Init == LibInit /\ CliStart(NoFlags)

Next ==
    \/ CallId
    \/ CallCustomId
    \/ CallCustomIdInLanguage
    \/ CallCapitalize
    \/ CallFromStr

Spec == Init /\ [][Next]_vars

CliInit == LibInit /\ \E c \in CommandLines : CliStart(c)

CliNext ==
    \/ MainResolve
    \/ MainForEach
    \/ MainReturn

CliSpec == CliInit /\ [][CliNext]_vars

\* the three generator entry points beside a 3wid run without flags
DefaultsNext ==
    \/ CallId
    \/ CallCustomId
    \/ CallCustomIdInLanguage
    \/ MainResolve
    \/ MainForEach
    \/ MainReturn

DefaultsSpec == Init /\ [][DefaultsNext]_vars

-----------------------------------------------------------------------------
(* Properties *)

\* the word lists of a language as sets: 1 adjectives, 2 nouns, 3 verbs
Words(lang, k) == Range(chosen_words(lang)[k])

\* every char of every catalog word of a language
CatalogChars(lang) ==
    UNION {Range(w) : w \in Words(lang, 1) \cup Words(lang, 2) \cup Words(lang, 3)}

\* the last call was custom_id or custom_id_in_language
IsCustomCall == call.fn \in {"custom_id", "custom_id_in_language"}

\* the language that call generated in
CallLanguage ==
    IF call.fn = "custom_id_in_language" THEN call.language ELSE "En"

\* every identifier a call with these arguments can return
PossibleIds(sep, cap, lang) ==
    {custom_id_in_language(sep, cap, lang, r) : r \in RngDraws(lang)}

\* the three parts are an adjective, a noun and a verb of the language
PartsAreWords(parts, lang) ==
    /\ Len(parts) = 3
    /\ contains(chosen_words(lang)[1], parts[1])
    /\ contains(chosen_words(lang)[2], parts[2])
    /\ contains(chosen_words(lang)[3], parts[3])

\* C1 as stated: for every separator, an identifier generated with
\* capitalize=false splits on the separator into exactly 3 parts, an
\* adjective, a noun and a verb of the language, and has no upper-case char.
C1_AnySeparator ==
    (IsCustomCall /\ ~call.should_capitalize /\ ~result.panicked) =>
        /\ PartsAreWords(split(result.value, call.separator), CallLanguage)
        /\ capitals(result.value) = 0

\* the separator is not empty, has no upper-case char and no char that
\* occurs in a word of the language
SeparatorIsForeign(sep, lang) ==
    /\ sep # <<>>
    /\ Range(sep) \cap (CatalogChars(lang) \cup Range(UpperCase)) = {}

\* C1 amended: the same, for every non-empty separator that has no
\* upper-case char and shares no char with the words of the language.
C1_ForeignSeparator ==
    (/\ IsCustomCall
     /\ ~call.should_capitalize
     /\ SeparatorIsForeign(call.separator, CallLanguage)) =>
        /\ ~result.panicked
        /\ PartsAreWords(split(result.value, call.separator), CallLanguage)
        /\ capitals(result.value) = 0

C1_Witness ==
    /\ call.fn = "custom_id"
    /\ call.separator = <<"-">>
    /\ ~call.should_capitalize
    /\ result = Returned(<<"t","a","m","e","-","l","i","o","n","s","-",
                           "r","e","t","i","r","e">>)

\* C2: with capitalize=true and a separator without upper-case chars, the
\* identifier has exactly 3 upper-case chars, and they are the first chars of
\* its three words.
C2_ThreeCapitals ==
    (/\ IsCustomCall
     /\ call.should_capitalize
     /\ capitals(call.separator) = 0) =>
        /\ ~result.panicked
        /\ capitals(result.value) = 3
        /\ \E a \in Words(CallLanguage, 1), n \in Words(CallLanguage, 2),
              v \in Words(CallLanguage, 3) :
             LET s == Len(call.separator)
             IN  /\ Len(result.value) = Len(a) + Len(n) + Len(v) + 2 * s
                 /\ <<result.value[1]>> = to_uppercase(a[1])
                 /\ <<result.value[Len(a) + s + 1]>> = to_uppercase(n[1])
                 /\ <<result.value[Len(a) + Len(n) + 2 * s + 1]>>
                        = to_uppercase(v[1])
                 /\ {i \in 1..Len(result.value) : is_uppercase(result.value[i])}
                        = {1, Len(a) + s + 1, Len(a) + Len(n) + 2 * s + 1}

C2_Witness ==
    /\ call.fn = "custom_id"
    /\ call.separator = <<>>
    /\ call.should_capitalize
    /\ result = Returned(<<"C","h","a","t","t","y","W","o","m","b","a","t","s",
                           "C","a","r","e">>)

\* C3: the identifier is word1 ++ sep ++ word2 ++ sep ++ word3 for an
\* adjective, a noun and a verb in this order, each capitalized or not as the
\* flag says, with the separator as given.
C3_JoinedInOrder ==
    IsCustomCall =>
        /\ ~result.panicked
        /\ \E a \in Words(CallLanguage, 1), n \in Words(CallLanguage, 2),
              v \in Words(CallLanguage, 3) :
             result.value =
                 may_capitalize(call.should_capitalize, a) \o call.separator \o
                 may_capitalize(call.should_capitalize, n) \o call.separator \o
                 may_capitalize(call.should_capitalize, v)

C3_Witness ==
    /\ call.fn = "custom_id_in_language"
    /\ call.separator = <<":", ":">>
    /\ call.should_capitalize
    /\ result = Returned(<<"T","a","m","e",":",":","W","o","m","b","a","t","s",
                           ":",":","C","a","r","e">>)

\* the --language tag given does not name a supported language
TagUnsupported ==
    cmd_line.language.is_some /\ cmd_line.language.value \notin {"en", "EN"}

\* C4: a run given an unsupported tag ("xx") never generates in the default
\* language: nothing is ever written to standard output, and the run ends
\* with status 1 and the error of from_str on standard error.
C4_UnsupportedTagFails ==
    (cmd_line.language.is_some
        /\ cmd_line.language.value \in {"xx", ""}) =>
        /\ stdout = <<>>
        /\ language = None
        /\ pc # "for_each"
        /\ pc = "exited" =>
             /\ exit_code = Some(1)
             /\ Len(stderr) = 1
             /\ stderr[1][3] = cmd_line.language.value

C4_Witness ==
    /\ cmd_line.language = Some("xx")
    /\ cmd_line.count = Some(MaxCount)
    /\ pc = "exited"
    /\ exit_code = Some(1)

\* every spelling of the code "en" in upper and lower case
CaseVariantsEn == {"en", "EN", "En", "eN"}

\* C5 as stated: a run given any case variant of "en" resolves it to English,
\* prints its identifiers and exits with status 0.
C5_AnyCase ==
    (/\ cmd_line.language.is_some
     /\ cmd_line.language.value \in CaseVariantsEn
     /\ pc = "exited") =>
        /\ exit_code = Some(0)
        /\ language = Some("En")
        /\ Len(stdout) = Count

\* C5 amended: a run given "en" or "EN" resolves it to English, prints its
\* identifiers and exits with status 0; a run given a mixed-case spelling
\* ("En", "eN") ends with status 1 and prints no identifier.
C5_LowerOrUpper ==
    /\ (/\ cmd_line.language.is_some
        /\ cmd_line.language.value \in {"en", "EN"}
        /\ pc = "exited") =>
           /\ exit_code = Some(0)
           /\ language = Some("En")
           /\ Len(stdout) = Count
    /\ (/\ cmd_line.language.is_some
        /\ cmd_line.language.value \in {"En", "eN"}
        /\ pc = "exited") =>
           /\ exit_code = Some(1)
           /\ stdout = <<>>

C5_Witness ==
    /\ cmd_line.language = Some("EN")
    /\ cmd_line.count = Some(2)
    /\ pc = "exited"
    /\ Len(stdout) = 2

C7_Defaults ==
    /\ call.fn = "id" =>
         result = custom_id_in_language(<<>>, TRUE, "En", rng)
    /\ call.fn = "custom_id" =>
         result = custom_id_in_language(call.separator,
                      call.should_capitalize, "En", rng)
    /\ (cmd_line = NoFlags /\ pc # "main") =>
         /\ separator = Some(<<>>)
         /\ capitalize_words = Some(TRUE)
         /\ language = Some("En")
         /\ \A i \in 1..Len(stdout) :
              Returned(stdout[i]) \in PossibleIds(<<>>, TRUE, "En")

C7_Witness ==
    /\ call.fn = "id"
    /\ result = Returned(<<"T","a","m","e","L","i","o","n","s",
                           "R","e","t","i","r","e">>)
    /\ pc = "exited"
    /\ stdout = << <<"C","h","a","t","t","y","L","i","o","n","s",
                     "C","a","r","e">> >>

\* C8: every generator call returns, and returns a non-empty string, for
\* every separator (the empty one included) and either value of the flag.
C8_ReturnsNonEmpty ==
    call.fn \in {"id", "custom_id", "custom_id_in_language"} =>
        /\ ~result.panicked
        /\ Len(result.value) > 0

C8_Witness ==
    /\ call.fn = "custom_id_in_language"
    /\ call.separator = <<>>
    /\ ~call.should_capitalize
    /\ ~result.panicked
    /\ Len(result.value) > 0

\* C9: capitalize(w) is the upper-cased first char of w followed by the rest
\* of w as it was, capitalize("") is "", and with capitalize=false the
\* identifier is made of the catalog words as they are.
C9_FirstCharOnly ==
    /\ call.fn = "capitalize" =>
         LET w == call.input
             out == result.value
         IN  IF w = <<>>
             THEN out = <<>>
             ELSE LET up == to_uppercase(w[1])
                  IN  /\ Len(out) = Len(up) + Len(w) - 1
                      /\ SubSeq(out, 1, Len(up)) = up
                      /\ \A i \in 2..Len(w) : out[Len(up) + i - 1] = w[i]
    /\ (IsCustomCall /\ ~call.should_capitalize) =>
         \E a \in Words(CallLanguage, 1), n \in Words(CallLanguage, 2),
            v \in Words(CallLanguage, 3) :
           result = Returned(a \o call.separator \o n \o call.separator \o v)

C9_Witness ==
    /\ call.fn = "capitalize"
    /\ call.input = <<"T","a","M">>
    /\ result = Returned(<<"T","a","M">>)

\* C10: whatever calls were made before, the next custom_id_in_language(sep,
\* cap, lang) can return the identifier of every (adjective, noun, verb)
\* triple of the language, and the call just made returned one of them.
C10_EveryTriple ==
    /\ \A sep \in {<<>>, <<"-">>}, cap \in BOOLEAN, lang \in Language :
         LET words == chosen_words(lang)
         IN  \A i \in 1..Len(words[1]), j \in 1..Len(words[2]),
                k \in 1..Len(words[3]) :
               /\ <<i - 1, j - 1, k - 1>> \in RngDraws(lang)
               /\ ENABLED (/\ CustomIdInLanguageWith(sep, cap, lang,
                                  <<i - 1, j - 1, k - 1>>)
                           /\ result' = Returned(
                                  may_capitalize(cap, words[1][i]) \o sep \o
                                  may_capitalize(cap, words[2][j]) \o sep \o
                                  may_capitalize(cap, words[3][k])))
    /\ call.fn = "custom_id_in_language" =>
         result \in PossibleIds(call.separator, call.should_capitalize,
                                call.language)
    /\ \A lang \in Language :
         Cardinality(PossibleIds(<<"-">>, FALSE, lang)) =
             Len(chosen_words(lang)[1]) * Len(chosen_words(lang)[2])
                 * Len(chosen_words(lang)[3])

C10_Witness ==
    /\ call.fn = "custom_id_in_language"
    /\ call.separator = <<"-">>
    /\ ~call.should_capitalize
    /\ result = Returned(<<"c","h","a","t","t","y","-","l","i","o","n","s","-",
                           "c","a","r","e">>)

====
